---- MODULE Spec2Model ----
(***************************************************************************)
(* Tariff Rate Resolution & Conflict Validation Engine of the Cathay Cargo *)
(* Mail Solution backend.                                                  *)
(*                                                                         *)
(* The Rate Store is the tariff_rates table (src/models/database.py),      *)
(* mutated by the rate-admin endpoints of backend/app.py.  Dates are day   *)
(* numbers, weights are whole kilograms.                                   *)
(***************************************************************************)
EXTENDS Integers, FiniteSets, Sequences, TLC

(***************************************************************************)
(* Bounds and input domains                                                *)
(***************************************************************************)

\* Rows the tariff_rates table holds at most.
MaxRates == 2

\* Column default of max_weight, and default of the create payload.
DefaultMaxWeight == 999999

\* (origin, destination, goods_category, postal_service) of the payloads.
Scopes ==
    { <<"CN", "US", "*", "*">>,
      <<"CN", "US", "Electronics", "*">> }

\* (start_date, end_date) of the payloads: two that share day 2, two apart.
DateRanges == { <<1, 2>>, <<2, 3>>, <<3, 4>> }

\* (min_weight, max_weight) of the payloads: the default range and two brackets.
WeightRanges == { <<0, DefaultMaxWeight>>, <<0, 5>>, <<6, 10>> }

\* tariff_rate of the payloads, in tenths.
TariffRates == { 8 }

\* A JSON body of POST /tariff-rates or PUT /tariff-rates/<id> that carries
\* every field but is_active.
Payload(s, d, w, t) ==
    [ origin_country      |-> s[1],
      destination_country |-> s[2],
      goods_category      |-> s[3],
      postal_service      |-> s[4],
      start_date          |-> d[1],
      end_date            |-> d[2],
      min_weight          |-> w[1],
      max_weight          |-> w[2],
      tariff_rate         |-> t ]

\* The same body with the is_active key.
PayloadActive(s, d, w, t, a) ==
    [ origin_country      |-> s[1],
      destination_country |-> s[2],
      goods_category      |-> s[3],
      postal_service      |-> s[4],
      start_date          |-> d[1],
      end_date            |-> d[2],
      min_weight          |-> w[1],
      max_weight          |-> w[2],
      tariff_rate         |-> t,
      is_active           |-> a ]

\* Bodies that pass the field checks of the handlers.
ValidPayloads ==
    { Payload(s, d, w, t) :
        s \in Scopes, d \in DateRanges, w \in WeightRanges, t \in TariffRates }
    \cup
    { PayloadActive(s, d, w, t, a) :
        s \in Scopes, d \in DateRanges, w \in WeightRanges, t \in TariffRates,
        a \in { TRUE } }

\* Bodies without a route: no origin, no destination.
NoRoutePayloads ==
    { Payload(<<"", "US", "*", "*">>, <<1, 2>>, <<0, 5>>, 8),
      Payload(<<"CN", "", "*", "*">>, <<1, 2>>, <<0, 5>>, 8) }

\* Bodies whose ranges are not in order: dates equal or reversed, weights
\* reversed, a negative weight.
BadRangePayloads ==
    { Payload(<<"CN", "US", "*", "*">>, <<2, 2>>, <<0, 5>>, 8),
      Payload(<<"CN", "US", "*", "*">>, <<3, 1>>, <<0, 5>>, 8),
      Payload(<<"CN", "US", "*", "*">>, <<1, 2>>, <<5, 2>>, 8),
      Payload(<<"CN", "US", "*", "*">>, <<1, 2>>, <<-1, 5>>, 8) }

\* Bodies of PUT /tariff-rates/<id> that carry some of the fields only.
PartialPayloads ==
    { [ is_active |-> TRUE ],
      [ is_active |-> FALSE ],
      [ min_weight |-> 6, max_weight |-> 10 ],
      [ start_date |-> 3, end_date |-> 4 ],
      [ goods_category |-> "Electronics" ] }

Payloads == ValidPayloads \cup NoRoutePayloads \cup BadRangePayloads

UpdatePayloads == ValidPayloads \cup BadRangePayloads \cup PartialPayloads

RateIds == 1..MaxRates

(***************************************************************************)
(* State                                                                   *)
(***************************************************************************)

VARIABLES
    rates,          \* tariff_rates table: id -> row
    ratesUsed,      \* tariff_rate_used values of the processed_shipments rows
    rate_cache,     \* TariffCalculator.rate_cache: cache key -> id of the rate, 0 for None
    inflight,       \* per request worker: where its handler stands and what it read
    probe,          \* the rate handed to specificity_score or to an evaluator
    scored,         \* what the two specificity scores returned for it
    shipments,      \* processed_shipments table: id -> row
    system_config,  \* system_config table: config_key -> config_value
    result          \* what the last tariff calculation was given and returned

vars == <<rates, ratesUsed, rate_cache, inflight, probe, scored, shipments, system_config, result>>

\* What a rate-admin request served to completion leaves alone.
others == <<ratesUsed, rate_cache, inflight, probe, scored, shipments, system_config, result>>

\* Request workers of the server.
Workers == { "w1", "w2" }

(***************************************************************************)
(* TariffRate queries (src/models/database.py)                             *)
(***************************************************************************)

\* check_weight_range_overlap with the date overlap taken strictly: periods
\* that share only a boundary day pass.
check_weight_range_overlap_strict_dates(store, origin_country, destination_country, goods_category, postal_service, start_date, end_date, min_weight, max_weight, exclude_id) ==
    { i \in DOMAIN store :
        /\ store[i].origin_country = origin_country
        /\ store[i].destination_country = destination_country
        /\ store[i].goods_category = goods_category
        /\ store[i].postal_service = postal_service
        /\ store[i].is_active
        /\ store[i].start_date < end_date
        /\ store[i].end_date > start_date
        /\ store[i].min_weight <= max_weight
        /\ store[i].max_weight >= min_weight
        /\ (exclude_id # 0 => i # exclude_id) }

\* check_weight_range_overlap without the exclude_id filter.
check_weight_range_overlap_no_exclude(store, origin_country, destination_country, goods_category, postal_service, start_date, end_date, min_weight, max_weight, exclude_id) ==
    { i \in DOMAIN store :
        /\ store[i].origin_country = origin_country
        /\ store[i].destination_country = destination_country
        /\ store[i].goods_category = goods_category
        /\ store[i].postal_service = postal_service
        /\ store[i].is_active
        /\ store[i].start_date <= end_date
        /\ store[i].end_date >= start_date
        /\ store[i].min_weight <= max_weight
        /\ store[i].max_weight >= min_weight }

\* TariffRate.check_weight_range_overlap: ids of the rows the query returns.
\* exclude_id = 0 stands for None; "if exclude_id:" skips the filter for both.
check_weight_range_overlap(store, origin_country, destination_country, goods_category, postal_service, start_date, end_date, min_weight, max_weight, exclude_id) ==
    { i \in DOMAIN store :
        /\ store[i].origin_country = origin_country
        /\ store[i].destination_country = destination_country
        /\ store[i].goods_category = goods_category
        /\ store[i].postal_service = postal_service
        /\ store[i].is_active
        /\ store[i].start_date <= end_date
        /\ store[i].end_date >= start_date
        /\ store[i].min_weight <= max_weight
        /\ store[i].max_weight >= min_weight
        /\ (exclude_id # 0 => i # exclude_id) }

\* TariffRate.check_combined_conflicts: the same query as
\* check_weight_range_overlap, written out again.
check_combined_conflicts(store, origin_country, destination_country, goods_category, postal_service, start_date, end_date, min_weight, max_weight, exclude_id) ==
    { i \in DOMAIN store :
        /\ store[i].origin_country = origin_country
        /\ store[i].destination_country = destination_country
        /\ store[i].goods_category = goods_category
        /\ store[i].postal_service = postal_service
        /\ store[i].is_active
        /\ store[i].start_date <= end_date
        /\ store[i].end_date >= start_date
        /\ store[i].min_weight <= max_weight
        /\ store[i].max_weight >= min_weight
        /\ (exclude_id # 0 => i # exclude_id) }

\* TariffRate.check_overlapping_rates: the date-only legacy check.
check_overlapping_rates(store, origin_country, destination_country, goods_category, postal_service, start_date, end_date, exclude_id) ==
    { i \in DOMAIN store :
        /\ store[i].origin_country = origin_country
        /\ store[i].destination_country = destination_country
        /\ store[i].goods_category = goods_category
        /\ store[i].postal_service = postal_service
        /\ store[i].is_active
        /\ store[i].start_date <= end_date
        /\ store[i].end_date >= start_date
        /\ (exclude_id # 0 => i # exclude_id) }

\* data.get(key, default) of a JSON payload.
Get(data, key, default) ==
    IF key \in DOMAIN data THEN data[key] ELSE default

\* The id SQLite gives a new row: INTEGER PRIMARY KEY without AUTOINCREMENT.
NextId(store) ==
    IF DOMAIN store = {} THEN 1
    ELSE (CHOOSE m \in DOMAIN store : \A i \in DOMAIN store : i <= m) + 1

\* A row of tariff_rates.
Rate(origin_country, destination_country, goods_category, postal_service, start_date, end_date, min_weight, max_weight, tariff_rate, is_active) ==
    [ origin_country      |-> origin_country,
      destination_country |-> destination_country,
      goods_category      |-> goods_category,
      postal_service      |-> postal_service,
      start_date          |-> start_date,
      end_date            |-> end_date,
      min_weight          |-> min_weight,
      max_weight          |-> max_weight,
      tariff_rate         |-> tariff_rate,
      is_active           |-> is_active ]

\* The fields create_tariff_rate reads from the payload, defaults applied,
\* as the row it would add.  The payloads carry both dates.
CreateCandidate(data) ==
    Rate(Get(data, "origin_country", ""),
         Get(data, "destination_country", ""),
         Get(data, "goods_category", "*"),
         Get(data, "postal_service", "*"),
         data.start_date,
         data.end_date,
         Get(data, "min_weight", 0),
         Get(data, "max_weight", DefaultMaxWeight),
         data.tariff_rate,
         Get(data, "is_active", TRUE))

\* The fields update_tariff_rate reads from the payload, each defaulting to
\* the stored value, as the row it would write.
UpdateCandidate(rate, data) ==
    Rate(Get(data, "origin_country", rate.origin_country),
         Get(data, "destination_country", rate.destination_country),
         Get(data, "goods_category", rate.goods_category),
         Get(data, "postal_service", rate.postal_service),
         Get(data, "start_date", rate.start_date),
         Get(data, "end_date", rate.end_date),
         Get(data, "min_weight", rate.min_weight),
         Get(data, "max_weight", rate.max_weight),
         Get(data, "tariff_rate", rate.tariff_rate),
         Get(data, "is_active", rate.is_active))

\* The exact-combination lookup of create_tariff_rate, whose .first() takes
\* one of these rows.
ExistingRates(store, cand) ==
    { i \in DOMAIN store :
        /\ store[i].origin_country = cand.origin_country
        /\ store[i].destination_country = cand.destination_country
        /\ store[i].goods_category = cand.goods_category
        /\ store[i].postal_service = cand.postal_service
        /\ store[i].start_date = cand.start_date
        /\ store[i].end_date = cand.end_date
        /\ store[i].min_weight = cand.min_weight
        /\ store[i].max_weight = cand.max_weight }

\* The rows .first() may return, 0 for None.
FirstExisting(store, data) ==
    IF ExistingRates(store, CreateCandidate(data)) = {} THEN {0}
    ELSE ExistingRates(store, CreateCandidate(data))

\* The conflict check of the three writers, on the row to be written.
WeightOverlap(store, cand, exclude_id) ==
    check_weight_range_overlap(store, cand.origin_country, cand.destination_country,
        cand.goods_category, cand.postal_service, cand.start_date, cand.end_date,
        cand.min_weight, cand.max_weight, exclude_id)

\* The legacy check of create_tariff_rate, on the row to be written.
DateOverlap(store, cand) ==
    check_overlapping_rates(store, cand.origin_country, cand.destination_country,
        cand.goods_category, cand.postal_service, cand.start_date, cand.end_date, 0)

\* db.session.add(row): the table with the row under a fresh id.
Insert(store, row) ==
    [i \in DOMAIN store \cup {NextId(store)} |->
        IF i \in DOMAIN store THEN store[i] ELSE row]

(***************************************************************************)
(* Rate-admin handlers (backend/app.py), as functions of the store and the *)
(* request: the HTTP status, the store after the request and the ids the   *)
(* response lists as overlapping.                                          *)
(***************************************************************************)

Reply(status, store, overlapping) ==
    [ status |-> status, rates |-> store, overlapping |-> overlapping ]

\* The checks of create_tariff_rate before it writes: 0 when they pass, else
\* the reply.
CreateChecks(store, data) ==
    LET cand == CreateCandidate(data)
    IN  IF cand.origin_country = "" \/ cand.destination_country = ""
            THEN Reply(400, store, {})
        ELSE IF cand.start_date >= cand.end_date
            THEN Reply(400, store, {})
        ELSE IF cand.min_weight < 0 \/ cand.max_weight < 0
            THEN Reply(400, store, {})
        ELSE IF cand.min_weight > cand.max_weight
            THEN Reply(400, store, {})
        ELSE LET overlapping_weight_rates == WeightOverlap(store, cand, 0)
                 overlapping_rates == DateOverlap(store, cand)
             IN  IF overlapping_weight_rates # {}
                     THEN Reply(400, store, overlapping_weight_rates)
                 ELSE IF overlapping_rates # {}
                     THEN Reply(400, store, overlapping_rates)
                 ELSE Reply(0, store, {})

\* The write of create_tariff_rate: the row .first() found is updated, or a
\* new row is added.  `existing` is 0 for None.
CreateWrite(store, data, existing) ==
    LET cand == CreateCandidate(data)
    IN  IF existing # 0
            THEN Reply(200,
                       [store EXCEPT ![existing] =
                            [ @ EXCEPT
                                !.tariff_rate = Get(data, "tariff_rate", @),
                                !.min_weight = Get(data, "min_weight", @),
                                !.max_weight = Get(data, "max_weight", @),
                                !.is_active = Get(data, "is_active", @) ]],
                       {})
        ELSE Reply(201, Insert(store, cand), {})

\* POST /tariff-rates.
create_tariff_rate(store, data, existing) ==
    LET checked == CreateChecks(store, data)
    IN  IF checked.status # 0 THEN checked
        ELSE CreateWrite(store, data, existing)

\* update_tariff_rate assigning the fields before its conflict check, so that
\* a rejected request leaves them written.
UpdateChecks_assign_first(store, rate_id, data) ==
    IF rate_id \notin DOMAIN store
        THEN Reply(404, store, {})
    ELSE LET cand == UpdateCandidate(store[rate_id], data)
         IN  IF cand.start_date >= cand.end_date
                 THEN Reply(400, store, {})
             ELSE IF cand.min_weight < 0 \/ cand.max_weight < 0
                 THEN Reply(400, store, {})
             ELSE IF cand.min_weight > cand.max_weight
                 THEN Reply(400, store, {})
             ELSE LET overlapping_weight_rates == WeightOverlap(store, cand, rate_id)
                  IN  IF overlapping_weight_rates # {}
                          THEN Reply(400, [store EXCEPT ![rate_id] = cand],
                                     overlapping_weight_rates)
                      ELSE Reply(0, store, {})

\* The checks of update_tariff_rate before it writes.
UpdateChecks(store, rate_id, data) ==
    IF rate_id \notin DOMAIN store
        THEN Reply(404, store, {})
    ELSE LET cand == UpdateCandidate(store[rate_id], data)
         IN  IF cand.start_date >= cand.end_date
                 THEN Reply(400, store, {})
             ELSE IF cand.min_weight < 0 \/ cand.max_weight < 0
                 THEN Reply(400, store, {})
             ELSE IF cand.min_weight > cand.max_weight
                 THEN Reply(400, store, {})
             ELSE LET overlapping_weight_rates == WeightOverlap(store, cand, rate_id)
                  IN  IF overlapping_weight_rates # {}
                          THEN Reply(400, store, overlapping_weight_rates)
                      ELSE Reply(0, store, {})

\* The write of update_tariff_rate; `cand` holds the values read before the
\* checks, is_active is read from the row at the write.
UpdateWrite(store, rate_id, cand, data) ==
    IF rate_id \notin DOMAIN store
        THEN Reply(500, store, {})
    ELSE Reply(200,
               [store EXCEPT ![rate_id] =
                    [cand EXCEPT !.is_active =
                        Get(data, "is_active", store[rate_id].is_active)]],
               {})

\* PUT /tariff-rates/<id>.
update_tariff_rate(store, rate_id, data) ==
    LET checked == UpdateChecks(store, rate_id, data)
    IN  IF checked.status # 0 THEN checked
        ELSE UpdateWrite(store, rate_id, UpdateCandidate(store[rate_id], data), data)

\* DELETE /tariff-rates/<id> removing the row instead of clearing is_active.
delete_tariff_rate_hard(store, rate_id) ==
    IF rate_id \notin DOMAIN store
        THEN Reply(404, store, {})
    ELSE Reply(200, [i \in DOMAIN store \ {rate_id} |-> store[i]], {})

\* DELETE /tariff-rates/<id>: the soft delete.
delete_tariff_rate(store, rate_id) ==
    IF rate_id \notin DOMAIN store
        THEN Reply(404, store, {})
    ELSE Reply(200, [store EXCEPT ![rate_id].is_active = FALSE], {})

\* POST /tariff-rates/<id>/deactivate.
deactivate_rate(store, rate_id) ==
    IF rate_id \notin DOMAIN store
        THEN Reply(404, store, {})
    ELSE Reply(200, [store EXCEPT ![rate_id].is_active = FALSE], {})

\* The check of reactivate_rate before it writes.
ReactivateChecks(store, rate_id) ==
    IF rate_id \notin DOMAIN store
        THEN Reply(404, store, {})
    ELSE LET overlapping_rates == WeightOverlap(store, store[rate_id], rate_id)
         IN  IF overlapping_rates # {}
                 THEN Reply(400, store, overlapping_rates)
             ELSE Reply(0, store, {})

\* The write of reactivate_rate.
ReactivateWrite(store, rate_id) ==
    IF rate_id \notin DOMAIN store
        THEN Reply(500, store, {})
    ELSE Reply(200, [store EXCEPT ![rate_id].is_active = TRUE], {})

\* POST /tariff-rates/<id>/reactivate.
reactivate_rate(store, rate_id) ==
    LET checked == ReactivateChecks(store, rate_id)
    IN  IF checked.status # 0 THEN checked
        ELSE ReactivateWrite(store, rate_id)

\* DELETE /tariff-rates/<id>/archive; `used` are the tariff_rate_used values of
\* the processed shipments.
archive_rate(store, used, rate_id) ==
    IF rate_id \notin DOMAIN store
        THEN Reply(404, store, {})
    ELSE IF store[rate_id].tariff_rate \in used
        THEN Reply(400, store, {})
    ELSE Reply(200, [i \in DOMAIN store \ {rate_id} |-> store[i]], {})

\* The rows bulk_deactivate_rates finds for the list rate_ids:
\* TariffRate.id.in_(rate_ids).
BulkFound(store, rate_ids) ==
    { i \in DOMAIN store : \E k \in DOMAIN rate_ids : rate_ids[k] = i }

\* updated_count of bulk_deactivate_rates: the found rows that were active.
bulk_updated_count(store, rate_ids) ==
    Cardinality({ i \in BulkFound(store, rate_ids) : store[i].is_active })

\* POST /tariff-rates/bulk-deactivate; rate_ids is the JSON list of the body.
bulk_deactivate_rates(store, rate_ids) ==
    IF rate_ids = << >>
        THEN Reply(400, store, {})
    ELSE IF Cardinality(BulkFound(store, rate_ids)) # Len(rate_ids)
        THEN Reply(404, store, {})
    ELSE Reply(200,
               [i \in DOMAIN store |->
                    IF i \in BulkFound(store, rate_ids)
                        THEN [store[i] EXCEPT !.is_active = FALSE]
                    ELSE store[i]],
               {})

(***************************************************************************)
(* Rate resolution: TariffCalculator.find_applicable_rate over the         *)
(* TariffRate of backend/models.py, and TariffRate.find_route_rate of      *)
(* src/models/database.py, which POST /calculate-tariff and the batch      *)
(* recalculation use.  A request is a record; an argument that is None is  *)
(* a key the record lacks.                                                 *)
(***************************************************************************)

\* Python's None where a string is expected.
PyNone == "<None>"

\* Truthiness of a string argument.
Truthy(str) == str # PyNone /\ str # ""

\* TariffRate.is_applicable_for_date, for a date that is given.
is_applicable_for_date(rate, date) ==
    rate.start_date <= date /\ date <= rate.end_date

\* TariffRate.matches_criteria.
matches_criteria(rate, goods_category, postal_service) ==
    LET goods_match ==
            \/ rate.goods_category = "*"
            \/ (Truthy(goods_category) /\ rate.goods_category = goods_category)
            \/ goods_category = PyNone
        service_match ==
            \/ rate.postal_service = "*"
            \/ (Truthy(postal_service) /\ rate.postal_service = postal_service)
            \/ postal_service = PyNone
    IN  goods_match /\ service_match

\* A score of +2 for the category, +1 for the service and +1 for weight
\* bounds other than the full default range.
specificity_score_flat(rate) ==
    (IF rate.goods_category # "*" THEN 2 ELSE 0)
    + (IF rate.postal_service # "*" THEN 1 ELSE 0)
    + (IF \/ ("min_weight" \in DOMAIN rate /\ rate.min_weight # 0)
          \/ ("max_weight" \in DOMAIN rate /\ rate.max_weight # DefaultMaxWeight)
       THEN 1 ELSE 0)

\* TariffRate.specificity_score of backend/models.py.  A weight column that
\* is NULL is a key the row lacks.
specificity_score(rate) ==
    (IF rate.goods_category # "*" THEN 4 ELSE 0)
    + (IF rate.postal_service # "*" THEN 2 ELSE 0)
    + (IF "min_weight" \in DOMAIN rate \/ "max_weight" \in DOMAIN rate THEN 1 ELSE 0)

\* The specificity_score local to find_route_rate.
route_specificity_score(rate) ==
    IF rate.postal_service # "*" THEN 1 ELSE 0

\* The rates find_applicable_rate keeps: active rows of the route that pass
\* the category, service, date and weight filters.
ApplicableRates(store, req) ==
    { i \in DOMAIN store :
        /\ store[i].origin_country = req.origin
        /\ store[i].destination_country = req.destination
        /\ store[i].is_active
        /\ matches_criteria(store[i], req.goods_category, req.postal_service)
        /\ ("ship_date" \in DOMAIN req =>
                is_applicable_for_date(store[i], req.ship_date))
        /\ ("weight" \in DOMAIN req =>
                /\ ~(req.weight < store[i].min_weight)
                /\ ~(req.weight > store[i].max_weight)) }

\* The rows of the route that are active: all_rates of find_applicable_rate.
RouteRates(store, req) ==
    { i \in DOMAIN store :
        /\ store[i].origin_country = req.origin
        /\ store[i].destination_country = req.destination
        /\ store[i].is_active }

\* Element 0 of a list after list.sort(key, reverse=True): the sort is stable
\* and the query has no ORDER BY, so it is any one of the rows with the
\* highest key.
FirstSorted(ids, key) ==
    { i \in ids : \A j \in ids : key[j] <= key[i] }

\* dict with one more entry.
CachePut(cache, key, value) ==
    [k \in DOMAIN cache \cup {key} |-> IF k = key THEN value ELSE cache[k]]

\* TariffCalculator.find_applicable_rate: what a call may return (the id of
\* the rate, 0 for None) and the rate_cache it leaves.  The cache key is the
\* request; the cache holds the rate object, which the id stands for.
find_applicable_rate(cache, store, req) ==
    IF req \in DOMAIN cache
        THEN { [rate |-> cache[req], cache |-> cache] }
    ELSE IF RouteRates(store, req) = {}
        THEN { [rate |-> 0, cache |-> cache] }
    ELSE IF ApplicableRates(store, req) = {}
        THEN { [rate |-> 0, cache |-> CachePut(cache, req, 0)] }
    ELSE { [rate |-> i, cache |-> CachePut(cache, req, i)] :
             i \in FirstSorted(ApplicableRates(store, req),
                              [ r \in DOMAIN store |-> specificity_score(store[r]) ]) }

\* TariffRate.find_route_rate: the ids a call may return, 0 for None.  The
\* caller's goods_category is no argument of it.
find_route_rate(store, req) ==
    LET postal_service == IF req.postal_service = PyNone THEN "*"
                          ELSE req.postal_service
        route_rates ==
            { i \in DOMAIN store :
                /\ store[i].origin_country = req.origin
                /\ store[i].destination_country = req.destination
                /\ store[i].is_active
                /\ store[i].start_date <= req.ship_date
                /\ store[i].end_date >= req.ship_date
                /\ store[i].postal_service \in { postal_service, "*" } }
        weight_matches ==
            IF "weight" \in DOMAIN req
                THEN { i \in route_rates :
                         /\ store[i].min_weight <= req.weight
                         /\ req.weight <= store[i].max_weight }
            ELSE {}
        kept == IF weight_matches # {} THEN weight_matches ELSE route_rates
    IN  IF kept = {} THEN {0}
        ELSE FirstSorted(kept, [ r \in DOMAIN store |-> route_specificity_score(store[r]) ])

(***************************************************************************)
(* Actions: one request each, served to completion.  The table holds at    *)
(* most MaxRates rows.                                                     *)
(***************************************************************************)

HasRoom(store) == Cardinality(DOMAIN store) <= MaxRates

CreateTariffRate(bodies) ==
    \E data \in bodies :
        \E existing \in FirstExisting(rates, data) :
            LET reply == create_tariff_rate(rates, data, existing)
            IN  /\ HasRoom(reply.rates)
                /\ rates' = reply.rates
                /\ UNCHANGED others

UpdateTariffRate(bodies) ==
    \E rate_id \in RateIds, data \in bodies :
        /\ rates' = update_tariff_rate(rates, rate_id, data).rates
        /\ UNCHANGED others

DeleteTariffRate ==
    \E rate_id \in RateIds :
        /\ rates' = delete_tariff_rate(rates, rate_id).rates
        /\ UNCHANGED others

DeactivateRate ==
    \E rate_id \in RateIds :
        /\ rates' = deactivate_rate(rates, rate_id).rates
        /\ UNCHANGED others

ReactivateRate ==
    \E rate_id \in RateIds :
        /\ rates' = reactivate_rate(rates, rate_id).rates
        /\ UNCHANGED others

ArchiveRate ==
    \E rate_id \in RateIds :
        /\ rates' = archive_rate(rates, ratesUsed, rate_id).rates
        /\ UNCHANGED others

\* The lists of ids a bulk request carries: none, one or two ids, the same
\* id twice included, and ids the table cannot hold.
BulkRateIds ==
    { << >> } \cup { <<a>> : a \in 1..(MaxRates + 1) }
              \cup { <<a, b>> : a \in 1..(MaxRates + 1), b \in 1..(MaxRates + 1) }

BulkDeactivateRates ==
    \E rate_ids \in BulkRateIds :
        /\ rates' = bulk_deactivate_rates(rates, rate_ids).rates
        /\ UNCHANGED others

\* Nothing scored yet.
NotScored == [ done |-> FALSE, score |-> 0, route_score |-> 0 ]

\* The empty tables and a fresh TariffCalculator.
EmptyStore == [i \in {} |-> 0]

EmptyCache == [k \in {} |-> 0]

Idle == [ pc |-> "idle" ]

\* No tariff calculated yet.
NoResult == [ done |-> FALSE ]

\* No shipment processed, no configuration stored, nothing calculated.
InitNoShipments ==
    /\ shipments = EmptyStore
    /\ system_config = EmptyCache
    /\ result = NoResult

InitIdle ==
    /\ rate_cache = EmptyCache
    /\ inflight = [p \in Workers |-> Idle]
    /\ probe = [ goods_category |-> "*", postal_service |-> "*" ]
    /\ scored = NotScored
    /\ InitNoShipments

\* The empty Rate Store; the shipment history is given.
Init ==
    /\ rates = EmptyStore
    /\ ratesUsed \in SUBSET TariffRates
    /\ InitIdle

Next ==
    \/ CreateTariffRate(Payloads)
    \/ UpdateTariffRate(UpdatePayloads)
    \/ DeleteTariffRate
    \/ DeactivateRate
    \/ ReactivateRate
    \/ ArchiveRate
    \/ BulkDeactivateRates

\* Rate administration, one request at a time.
Spec == Init /\ [][Next]_vars

(***************************************************************************)
(* Resolution against a store under administration                         *)
(***************************************************************************)

\* Bodies of the rate requests: a wildcard rate, a category rate and a
\* service rate of one route, over the default weights or a bracket.
ResolveScopes ==
    { <<"CN", "US", "*", "*">>,
      <<"CN", "US", "Electronics", "*">>,
      <<"CN", "US", "*", "EMS">> }

ResolvePayloads ==
    { Payload(s, <<1, 2>>, w, 8) :
        s \in ResolveScopes, w \in { <<0, DefaultMaxWeight>>, <<0, 5>> } }

ResolveUpdatePayloads ==
    { [ start_date |-> 3, end_date |-> 4 ],
      [ min_weight |-> 0, max_weight |-> 5 ],
      [ goods_category |-> "Electronics" ] }

\* Shipment requests handed to the resolvers; the last has no weight.
Requests ==
    { [ origin |-> "CN", destination |-> "US", goods_category |-> "Electronics",
        postal_service |-> "EMS", ship_date |-> 1, weight |-> 3 ],
      [ origin |-> "CN", destination |-> "US", goods_category |-> "Documents",
        postal_service |-> "*", ship_date |-> 1, weight |-> 8 ],
      [ origin |-> "CN", destination |-> "US", goods_category |-> "Electronics",
        postal_service |-> "EMS", ship_date |-> 3 ] }

\* tariff_calculator.find_applicable_rate(...) on the global calculator.
FindApplicableRate ==
    \E req \in Requests :
        \E out \in find_applicable_rate(rate_cache, rates, req) :
            /\ rate_cache' = out.cache
            /\ UNCHANGED <<rates, ratesUsed, inflight, probe, scored, shipments, system_config, result>>

\* TariffRate.find_route_rate(...): a read.
FindRouteRate ==
    \E req \in Requests :
        \E rate \in find_route_rate(rates, req) :
            UNCHANGED vars

InitResolve ==
    /\ rates = EmptyStore
    /\ ratesUsed = {}
    /\ InitIdle

NextResolve ==
    \/ CreateTariffRate(ResolvePayloads)
    \/ UpdateTariffRate(ResolveUpdatePayloads)
    \/ DeactivateRate
    \/ ReactivateRate
    \/ ArchiveRate
    \/ FindApplicableRate
    \/ FindRouteRate

SpecResolve == InitResolve /\ [][NextResolve]_vars

(***************************************************************************)
(* Rate administration by concurrent request workers.  A writer first      *)
(* reads (its field checks, its conflict queries, its lookups) and then    *)
(* writes and commits; other workers' steps come in between.               *)
(***************************************************************************)

\* Bodies of the concurrent requests: one scope and period, three weights.
ConcPayloads ==
    { Payload(<<"CN", "US", "*", "*">>, <<1, 2>>, w, 8) :
        w \in { <<0, DefaultMaxWeight>>, <<0, 5>>, <<6, 10>> } }

\* Rows the requests in flight will add.
PendingCreates ==
    Cardinality({ p \in Workers : inflight[p].pc = "create" /\ inflight[p].existing = 0 })

CreateRead(p) ==
    \E data \in ConcPayloads :
        \E existing \in FirstExisting(rates, data) :
            /\ inflight[p] = Idle
            /\ CreateChecks(rates, data).status = 0
            /\ existing = 0 => Cardinality(DOMAIN rates) + PendingCreates < MaxRates
            /\ inflight' = [inflight EXCEPT ![p] =
                    [ pc |-> "create", data |-> data, existing |-> existing ]]
            /\ UNCHANGED <<rates, ratesUsed, rate_cache, probe, scored, shipments, system_config, result>>

CreateCommit(p) ==
    /\ inflight[p].pc = "create"
    /\ rates' = CreateWrite(rates, inflight[p].data, inflight[p].existing).rates
    /\ inflight' = [inflight EXCEPT ![p] = Idle]
    /\ UNCHANGED <<ratesUsed, rate_cache, probe, scored, shipments, system_config, result>>

UpdateRead(p) ==
    \E rate_id \in RateIds, data \in ConcPayloads :
        /\ inflight[p] = Idle
        /\ UpdateChecks(rates, rate_id, data).status = 0
        /\ inflight' = [inflight EXCEPT ![p] =
                [ pc |-> "update", rate_id |-> rate_id, data |-> data,
                  cand |-> UpdateCandidate(rates[rate_id], data) ]]
        /\ UNCHANGED <<rates, ratesUsed, rate_cache, probe, scored, shipments, system_config, result>>

UpdateCommit(p) ==
    /\ inflight[p].pc = "update"
    /\ rates' = UpdateWrite(rates, inflight[p].rate_id, inflight[p].cand,
                            inflight[p].data).rates
    /\ inflight' = [inflight EXCEPT ![p] = Idle]
    /\ UNCHANGED <<ratesUsed, rate_cache, probe, scored, shipments, system_config, result>>

ReactivateRead(p) ==
    \E rate_id \in RateIds :
        /\ inflight[p] = Idle
        /\ ReactivateChecks(rates, rate_id).status = 0
        /\ inflight' = [inflight EXCEPT ![p] =
                [ pc |-> "reactivate", rate_id |-> rate_id ]]
        /\ UNCHANGED <<rates, ratesUsed, rate_cache, probe, scored, shipments, system_config, result>>

ReactivateCommit(p) ==
    /\ inflight[p].pc = "reactivate"
    /\ rates' = ReactivateWrite(rates, inflight[p].rate_id).rates
    /\ inflight' = [inflight EXCEPT ![p] = Idle]
    /\ UNCHANGED <<ratesUsed, rate_cache, probe, scored, shipments, system_config, result>>

NextConc ==
    \/ \E p \in Workers : CreateRead(p)
    \/ \E p \in Workers : CreateCommit(p)
    \/ \E p \in Workers : UpdateRead(p)
    \/ \E p \in Workers : UpdateCommit(p)
    \/ \E p \in Workers : ReactivateRead(p)
    \/ \E p \in Workers : ReactivateCommit(p)
    \/ DeactivateRate

SpecConc == InitResolve /\ [][NextConc]_vars

(***************************************************************************)
(* The specificity scores, each applied to a rate                          *)
(***************************************************************************)

\* Rates to score: with both weight bounds, with one, with none.
ProbeRates ==
    LET cats == { "*", "Electronics", "Documents" }
        svcs == { "*", "EMS", "E-packet" }
    IN  { [ goods_category |-> c, postal_service |-> v ] : c \in cats, v \in svcs }
        \cup
        { [ goods_category |-> c, postal_service |-> v, min_weight |-> w[1],
            max_weight |-> w[2] ] : c \in cats, v \in svcs, w \in WeightRanges }
        \cup
        { [ goods_category |-> c, postal_service |-> v, min_weight |-> 0 ] :
            c \in cats, v \in svcs }
        \cup
        { [ goods_category |-> c, postal_service |-> v, max_weight |-> 10 ] :
            c \in cats, v \in svcs }

SpecificityScore ==
    /\ ~scored.done
    /\ scored' = [ done |-> TRUE, score |-> specificity_score(probe),
                   route_score |-> route_specificity_score(probe) ]
    /\ UNCHANGED <<rates, ratesUsed, rate_cache, inflight, probe, shipments, system_config, result>>

InitScore ==
    /\ rates = EmptyStore
    /\ ratesUsed = {}
    /\ rate_cache = EmptyCache
    /\ inflight = [p \in Workers |-> Idle]
    /\ probe \in ProbeRates
    /\ scored = NotScored
    /\ InitNoShipments

NextScore == SpecificityScore

SpecScore == InitScore /\ [][NextScore]_vars

(***************************************************************************)
(* The Tariff Evaluator.  Money is in thousandths of the currency unit,    *)
(* tariff_rate in tenths; an amount before rounding is a fraction          *)
(* <<numerator, denominator>> of thousandths.                              *)
(***************************************************************************)

\* round(x, 2) of x = num/den thousandths, num >= 0: the nearest hundredth,
\* a tie going to the even one.
Round2(num, den) ==
    LET cents == num \div (10 * den)
        rest  == num - cents * 10 * den
    IN  IF 2 * rest < 10 * den THEN 10 * cents
        ELSE IF 2 * rest > 10 * den THEN 10 * (cents + 1)
        ELSE IF cents % 2 = 0 THEN 10 * cents
        ELSE 10 * (cents + 1)

\* minimum_tariff of a row: the column default 0.0 where the payload had none.
MinimumTariff(rate) == Get(rate, "minimum_tariff", 0)

\* "self.maximum_tariff and ...": the maximum is applied when it is neither
\* None nor 0.
MaximumTariffTruthy(rate) ==
    "maximum_tariff" \in DOMAIN rate /\ rate.maximum_tariff # 0

\* declared_value * tariff_rate, then the minimum, then the maximum, then
\* round(., 2): the tail the three evaluators share.
ClampAndRound(rate, declared_value) ==
    LET raw  == << declared_value * rate.tariff_rate, 10 >>
        low  == IF raw[1] < MinimumTariff(rate) * raw[2]
                    THEN << MinimumTariff(rate), 1 >> ELSE raw
        high == IF MaximumTariffTruthy(rate) /\ low[1] > rate.maximum_tariff * low[2]
                    THEN << rate.maximum_tariff, 1 >> ELSE low
    IN  Round2(high[1], high[2])

\* TariffRate.calculate_tariff of src/models/database.py.
calculate_tariff(rate, declared_value) ==
    IF ~rate.is_active \/ declared_value <= 0 THEN 0
    ELSE ClampAndRound(rate, declared_value)

\* TariffRate.calculate_tariff of backend/models.py: weight is a record that
\* has the key "weight" unless the argument is None.
calculate_tariff_by_weight(rate, declared_value, weight) ==
    IF ~rate.is_active \/ declared_value <= 0 THEN 0
    ELSE IF "weight" \in DOMAIN weight /\ "min_weight" \in DOMAIN rate
            /\ weight.weight < rate.min_weight THEN 0
    ELSE IF "weight" \in DOMAIN weight /\ "max_weight" \in DOMAIN rate
            /\ weight.weight > rate.max_weight THEN 0
    ELSE ClampAndRound(rate, declared_value)

\* The amount TariffRate.calculate_tariff_for_shipment computes from the
\* route rate it found; category_rates is empty, so the category rate is
\* tariff_rate.
route_tariff_amount(rate, declared_value) ==
    ClampAndRound(rate, declared_value)

\* Rates to evaluate: active and not, with and without a minimum, with no
\* maximum, a maximum of 0, one below the minimum and one above.
EvalRates ==
    { [ tariff_rate |-> t, minimum_tariff |-> lo, is_active |-> a,
        min_weight |-> 0, max_weight |-> 5 ] :
        t \in { 1, 8 }, lo \in { 0, 5000 }, a \in BOOLEAN }
    \cup
    { [ tariff_rate |-> t, minimum_tariff |-> lo, maximum_tariff |-> hi,
        is_active |-> a, min_weight |-> 0, max_weight |-> 5 ] :
        t \in { 1, 8 }, lo \in { 0, 5000 }, hi \in { 0, 2000, 50000 },
        a \in BOOLEAN }

\* Declared values: 0, 1.23 and 100.
DeclaredValues == { 0, 1230, 100000 }

\* The weight argument: None, inside the bounds of the rates, outside.
EvalWeights == { [ none |-> TRUE ], [ weight |-> 3 ], [ weight |-> 8 ] }

\* rate.calculate_tariff(declared_value) of src/models/database.py.
CalculateTariffOfRate ==
    /\ ~result.done
    /\ result' = [ result EXCEPT !.done = TRUE, !.by = "calculate_tariff",
                     !.amount = calculate_tariff(probe, result.declared_value) ]
    /\ UNCHANGED <<rates, ratesUsed, rate_cache, inflight, probe, scored, shipments, system_config>>

\* rate.calculate_tariff(declared_value, weight) of backend/models.py.
CalculateTariffByWeight ==
    /\ ~result.done
    /\ result' = [ result EXCEPT !.done = TRUE, !.by = "calculate_tariff_by_weight",
                     !.amount = calculate_tariff_by_weight(probe,
                                    result.declared_value, result.weight) ]
    /\ UNCHANGED <<rates, ratesUsed, rate_cache, inflight, probe, scored, shipments, system_config>>

\* The evaluation inside TariffRate.calculate_tariff_for_shipment.
RouteTariffAmount ==
    /\ ~result.done
    /\ result.declared_value > 0
    /\ result' = [ result EXCEPT !.done = TRUE, !.by = "route_tariff_amount",
                     !.amount = route_tariff_amount(probe, result.declared_value) ]
    /\ UNCHANGED <<rates, ratesUsed, rate_cache, inflight, probe, scored, shipments, system_config>>

InitEval ==
    /\ rates = EmptyStore
    /\ ratesUsed = {}
    /\ rate_cache = EmptyCache
    /\ inflight = [p \in Workers |-> Idle]
    /\ scored = NotScored
    /\ shipments = EmptyStore
    /\ system_config = EmptyCache
    /\ probe \in EvalRates
    /\ result \in { [ done |-> FALSE, by |-> "", declared_value |-> v,
                      weight |-> w, amount |-> 0 ] :
                      v \in DeclaredValues, w \in EvalWeights }

NextEval ==
    \/ CalculateTariffOfRate
    \/ CalculateTariffByWeight
    \/ RouteTariffAmount

\* Each evaluator applied to each rate and declared value.
SpecEval == InitEval /\ [][NextEval]_vars

(***************************************************************************)
(* The tariff pipeline: resolve, then evaluate or fall back                *)
(***************************************************************************)

\* TariffCalculator.default_rate, in tenths.
default_rate == 8

\* The literal SystemConfig.get_fallback_rate ends on, in tenths.
FinalFallbackRate == 8

\* The rows of processed_shipments the historical query of
\* calculate_fallback_tariff sums: of the route, with a declared value and a
\* tariff amount.  A row without the key tariff_amount holds None.
RouteHistory(rows, origin, destination) ==
    { i \in DOMAIN rows :
        /\ rows[i].host_origin_station = origin
        /\ rows[i].host_destination_station = destination
        /\ "declared_value" \in DOMAIN rows[i]
        /\ "tariff_amount" \in DOMAIN rows[i] }

\* func.sum of a column over rows.
RECURSIVE SumOf(_, _, _)
SumOf(rows, ids, column) ==
    IF ids = {} THEN 0
    ELSE LET i == CHOOSE j \in ids : TRUE
         IN  rows[i][column] + SumOf(rows, ids \ {i}, column)

\* TariffCalculator.calculate_fallback_tariff.
calculate_fallback_tariff(rows, origin, destination, declared_value) ==
    LET history == RouteHistory(rows, origin, destination)
        total_declared_value == SumOf(rows, history, "declared_value")
        total_tariff_amount == SumOf(rows, history, "tariff_amount")
    IN  IF history # {} /\ total_declared_value > 0 /\ total_tariff_amount # 0
            THEN Round2(declared_value * total_tariff_amount, total_declared_value)
        ELSE Round2(declared_value * default_rate, 10)

\* The arguments calculate_tariff_for_shipment hands to find_applicable_rate;
\* the shipments carry no bag_weight, so weight is None.
ShipmentRequest(shipment) ==
    [ origin         |-> shipment.host_origin_station,
      destination    |-> shipment.host_destination_station,
      goods_category |-> shipment.goods_category,
      postal_service |-> shipment.postal_service,
      ship_date      |-> shipment.shipment_date ]

\* TariffCalculator.calculate_tariff_for_shipment: the (amount, rate) pairs a
\* call may return, the rate_cache it leaves, and whether it went through
\* calculate_fallback_tariff.
TariffCalculator_calculate_tariff_for_shipment(cache, store, rows, shipment) ==
    IF shipment.declared_value <= 0
        THEN { [ tariff_amount |-> 0, rate |-> 0, cache |-> cache,
                 resolved |-> FALSE, fallback |-> FALSE ] }
    ELSE { IF out.rate # 0
               THEN [ tariff_amount |->
                          calculate_tariff_by_weight(store[out.rate],
                              shipment.declared_value, [ none |-> TRUE ]),
                      rate |-> out.rate, cache |-> out.cache,
                      resolved |-> TRUE, fallback |-> FALSE ]
           ELSE [ tariff_amount |->
                      calculate_fallback_tariff(rows, shipment.host_origin_station,
                          shipment.host_destination_station, shipment.declared_value),
                  rate |-> 0, cache |-> out.cache,
                  resolved |-> TRUE, fallback |-> TRUE ]
           : out \in find_applicable_rate(cache, store, ShipmentRequest(shipment)) }

\* TariffRate.calculate_tariff_for_shipment of src/models/database.py: the
\* dicts a call may return, rate_used 0 for None.
TariffRate_calculate_tariff_for_shipment(store, req, declared_value) ==
    { IF route_rate # 0
          THEN [ tariff_amount |-> route_tariff_amount(store[route_rate], declared_value),
                 rate_used |-> route_rate,
                 calculation_method |-> "configured_route" ]
      ELSE [ tariff_amount |-> 0, rate_used |-> 0, calculation_method |-> "error" ]
      : route_rate \in find_route_rate(store, req) }

\* SystemConfig.set_config(key, value).
set_config(config, key, value) == CachePut(config, key, value)

\* SystemConfig.get_fallback_rate: the value and the system_config it leaves.
get_fallback_rate(config, store) ==
    LET active == { i \in DOMAIN store : store[i].is_active }
        avg_rate == IF active = {} THEN 0
                    ELSE SumOf(store, active, "tariff_rate") \div Cardinality(active)
    IN  IF "fallback_tariff_rate" \in DOMAIN config
            THEN [ value |-> config["fallback_tariff_rate"], config |-> config ]
        ELSE IF avg_rate > 0
            THEN [ value |-> avg_rate,
                   config |-> set_config(config, "fallback_tariff_rate", avg_rate) ]
        ELSE [ value |-> FinalFallbackRate, config |-> config ]

\* The arguments calculate_tariff of app.py hands on; weight is
\* float(data.get('weight', 0)).
EndpointRequest(data) ==
    [ origin         |-> Get(data, "origin_country", ""),
      destination    |-> Get(data, "destination_country", ""),
      goods_category |-> Get(data, "goods_category", "*"),
      postal_service |-> Get(data, "postal_service", "*"),
      ship_date      |-> data.ship_date,
      weight         |-> Get(data, "weight", 0) ]

\* POST /calculate-tariff: the responses a call may give and the
\* system_config it leaves.
calculate_tariff_endpoint(store, config, data) ==
    LET req == EndpointRequest(data)
        declared_value == Get(data, "declared_value", 0)
    IN  IF req.origin = "" \/ req.destination = "" \/ declared_value <= 0
            THEN { [ status |-> 400, config |-> config ] }
        ELSE { IF res.rate_used # 0
                   THEN [ status |-> 200, config |-> config,
                          calculated_tariff |-> res.tariff_amount,
                          rate_details |-> res.rate_used,
                          calculation_method |-> "configured" ]
               ELSE [ status |-> 200,
                      config |-> get_fallback_rate(config, store).config,
                      calculated_tariff |-> res.tariff_amount,
                      rate_details |-> 0,
                      calculation_method |-> "fallback",
                      fallback_rate |-> get_fallback_rate(config, store).value ]
               : res \in TariffRate_calculate_tariff_for_shipment(store, req,
                             declared_value) }

\* shipment.tariff_amount = ...: the row with that column set.
WithTariffAmount(row, tariff_amount) == CachePut(row, "tariff_amount", tariff_amount)

\* The rows process_batch_tariffs selects without shipment_ids.  The column
\* holds None or the str() of a float, which is neither '' nor '0'.
WithoutTariff(rows) == { i \in DOMAIN rows : "tariff_amount" \notin DOMAIN rows[i] }

\* The orders a query without ORDER BY may return a set of rows in.
Perms(ids) ==
    { order \in [1..Cardinality(ids) -> ids] :
        \A a, b \in 1..Cardinality(ids) : order[a] = order[b] => a = b }

\* The loop of process_batch_tariffs over the shipments in a given order:
\* the tables and caches it may leave.  Each assignment is flushed before
\* the next shipment's queries run.
RECURSIVE ProcessShipments(_, _, _, _)
ProcessShipments(cache, store, rows, order) ==
    IF order = << >> THEN { [ rows |-> rows, cache |-> cache ] }
    ELSE UNION { ProcessShipments(out.cache, store,
                     [ rows EXCEPT ![Head(order)] =
                           WithTariffAmount(rows[Head(order)], out.tariff_amount) ],
                     Tail(order))
                 : out \in TariffCalculator_calculate_tariff_for_shipment(
                               cache, store, rows, rows[Head(order)]) }

\* TariffCalculator.process_batch_tariffs() with the query returning the
\* selected rows in the given order.
process_batch_tariffs(cache, store, rows, order) ==
    ProcessShipments(cache, store, rows, order)

\* The arguments batch_recalculate_tariffs hands on for a shipment that has
\* no declared_content, no tracking_number and no bag_weight.
RecalculateRequest(shipment) ==
    [ origin         |-> shipment.host_origin_station,
      destination    |-> shipment.host_destination_station,
      goods_category |-> shipment.goods_category,
      postal_service |-> shipment.postal_service,
      ship_date      |-> shipment.shipment_date,
      weight         |-> 0 ]

\* The loop body of batch_recalculate_tariffs for one shipment: the rows it
\* may leave.  tariff_amount is assigned; the next statement reads
\* tariff_result['fallback_used'], a key the dict does not have, and the
\* except clause goes on to the next shipment.
RecalculateShipment(store, shipment) ==
    IF shipment.declared_value > 0 /\ shipment.host_origin_station # ""
                                   /\ shipment.host_destination_station # ""
        THEN { WithTariffAmount(shipment, tariff_result.tariff_amount) :
                 tariff_result \in TariffRate_calculate_tariff_for_shipment(store,
                     RecalculateRequest(shipment), shipment.declared_value) }
    ELSE { shipment }

\* POST /batch-recalculate-tariffs without filters: the tables the commit may
\* leave.
batch_recalculate_tariffs(store, rows) ==
    { after \in [ DOMAIN rows -> UNION { RecalculateShipment(store, rows[i]) : i \in DOMAIN rows } ] :
        \A i \in DOMAIN rows : after[i] \in RecalculateShipment(store, rows[i]) }

(***************************************************************************)
(* The pipeline over a store under administration                          *)
(***************************************************************************)

\* Bodies of the rate requests: a category rate of 20% of one route.
PipelinePayloads ==
    { Payload(<<"CN", "US", "Electronics", "*">>, d, <<0, DefaultMaxWeight>>, 2) :
        d \in { <<1, 2>>, <<3, 4>> } }

\* A processed_shipments row of the route without a tariff amount.
ShipmentRow(goods_category, declared_value) ==
    [ host_origin_station       |-> "CN",
      host_destination_station  |-> "US",
      goods_category            |-> goods_category,
      postal_service            |-> "EMS",
      shipment_date             |-> 1,
      declared_value            |-> declared_value,
      tariff_calculation_method |-> "fallback" ]

\* The processed_shipments tables the pipeline starts on: without history,
\* with a history of zero tariffs, with a history at 10%.
ShipmentTables ==
    { << ShipmentRow("Electronics", 10000), ShipmentRow("Documents", 20000) >>,
      << WithTariffAmount(ShipmentRow("Documents", 10000), 0),
         ShipmentRow("Documents", 1230) >>,
      << WithTariffAmount(ShipmentRow("Documents", 10000), 1000),
         ShipmentRow("Electronics", 1230),
         ShipmentRow("Documents", 0) >> }

\* Bodies of POST /calculate-tariff.
EndpointBodies ==
    { [ origin_country |-> "CN", destination_country |-> "US",
        goods_category |-> g, declared_value |-> v, ship_date |-> 1 ] :
        g \in { "Electronics", "Documents" }, v \in { 0, 1230 } }

\* Values SystemConfig.set_config stores under 'fallback_tariff_rate', in
\* tenths.
ConfiguredFallbackRates == { 5 }

\* SystemConfig.set_config('fallback_tariff_rate', v).
SetConfig ==
    \E v \in ConfiguredFallbackRates :
        /\ system_config' = set_config(system_config, "fallback_tariff_rate", v)
        /\ UNCHANGED <<rates, ratesUsed, rate_cache, inflight, probe, scored, shipments, result>>

\* POST /calculate-tariff.
CalculateTariff ==
    \E data \in EndpointBodies :
        \E response \in calculate_tariff_endpoint(rates, system_config, data) :
            /\ system_config' = response.config
            /\ result' = [ done |-> TRUE, by |-> "calculate_tariff",
                           status |-> response.status ]
            /\ UNCHANGED <<rates, ratesUsed, rate_cache, inflight, probe, scored, shipments>>

\* tariff_calculator.calculate_tariff_for_shipment(shipment) on a row of the
\* table.
CalculateTariffForShipment ==
    \E i \in DOMAIN shipments :
        \E out \in TariffCalculator_calculate_tariff_for_shipment(rate_cache, rates,
                       shipments, shipments[i]) :
            /\ rate_cache' = out.cache
            /\ result' = [ done |-> TRUE, by |-> "calculate_tariff_for_shipment",
                           tariff_amount |-> out.tariff_amount ]
            /\ UNCHANGED <<rates, ratesUsed, inflight, probe, scored, shipments, system_config>>

\* tariff_calculator.process_batch_tariffs().
ProcessBatchTariffs ==
    \E order \in Perms(WithoutTariff(shipments)) :
        \E out \in process_batch_tariffs(rate_cache, rates, shipments, order) :
            /\ shipments' = out.rows
            /\ rate_cache' = out.cache
            /\ result' = [ done |-> TRUE, by |-> "process_batch_tariffs" ]
            /\ UNCHANGED <<rates, ratesUsed, inflight, probe, scored, system_config>>

\* POST /batch-recalculate-tariffs.
BatchRecalculateTariffs ==
    \E after \in batch_recalculate_tariffs(rates, shipments) :
        /\ shipments' = after
        /\ result' = [ done |-> TRUE, by |-> "batch_recalculate_tariffs" ]
        /\ UNCHANGED <<rates, ratesUsed, rate_cache, inflight, probe, scored, system_config>>

InitPipeline ==
    /\ rates = EmptyStore
    /\ ratesUsed = {}
    /\ rate_cache = EmptyCache
    /\ inflight = [p \in Workers |-> Idle]
    /\ probe = [ goods_category |-> "*", postal_service |-> "*" ]
    /\ scored = NotScored
    /\ shipments \in ShipmentTables
    /\ system_config = EmptyCache
    /\ result = NoResult

NextPipeline ==
    \/ CreateTariffRate(PipelinePayloads)
    \/ DeactivateRate
    \/ SetConfig
    \/ CalculateTariff
    \/ CalculateTariffForShipment
    \/ ProcessBatchTariffs
    \/ BatchRecalculateTariffs

SpecPipeline == InitPipeline /\ [][NextPipeline]_vars

(***************************************************************************)
(* Bulk validation: TariffRate.bulk_check_conflicts                        *)
(***************************************************************************)

\* The condition bulk_check_conflicts builds for one definition, on a row.
ConflictsWithDefinition(rate, rate_def) ==
    /\ rate.origin_country = rate_def.origin
    /\ rate.destination_country = rate_def.destination
    /\ rate.goods_category = rate_def.goods_category
    /\ rate.postal_service = rate_def.postal_service
    /\ rate.is_active
    /\ rate.start_date <= rate_def.end_date
    /\ rate.end_date >= rate_def.start_date
    /\ rate.min_weight <= rate_def.max_weight
    /\ rate.max_weight >= rate_def.min_weight

\* TariffRate.bulk_check_conflicts(rate_definitions, exclude_ids): the dict
\* from the index of a definition to the ids of its conflicts, counting the
\* definitions from 1; a definition without conflicts has no entry.
bulk_check_conflicts(store, rate_definitions, exclude_ids) ==
    LET all_conflicting_rates ==
            { r \in DOMAIN store \ exclude_ids :
                \E i \in DOMAIN rate_definitions :
                    ConflictsWithDefinition(store[r], rate_definitions[i]) }
        rate_conflicts ==
            [ i \in DOMAIN rate_definitions |->
                { r \in all_conflicting_rates :
                    ConflictsWithDefinition([ store[r] EXCEPT !.is_active = TRUE ],
                                            rate_definitions[i]) } ]
    IN  [ i \in { j \in DOMAIN rate_definitions : rate_conflicts[j] # {} } |->
            rate_conflicts[i] ]

\* A rate definition as bulk_check_conflicts reads it.
Definition(s, d, w) ==
    [ origin         |-> s[1],
      destination    |-> s[2],
      goods_category |-> s[3],
      postal_service |-> s[4],
      start_date     |-> d[1],
      end_date       |-> d[2],
      min_weight     |-> w[1],
      max_weight     |-> w[2] ]

\* Candidate definitions of an import: of the wildcard scope and of a
\* category, over days 1..2 or 2..4 and the default weights or a bracket.
Definitions ==
    { Definition(s, d, w) :
        s \in { <<"CN", "US", "*", "*">>, <<"CN", "US", "Electronics", "*">> },
        d \in { <<1, 2>>, <<2, 4>> },
        w \in { <<0, DefaultMaxWeight>>, <<0, 5>> } }

\* The batches handed to bulk_check_conflicts: none, one or two definitions.
Batches ==
    { << >> } \cup { <<a>> : a \in Definitions }
              \cup { <<a, b>> : a \in Definitions, b \in Definitions }

\* TariffRate.bulk_check_conflicts(...): a read.
BulkCheckConflicts ==
    \E rate_definitions \in Batches, exclude_ids \in SUBSET RateIds :
        /\ result' = [ done |-> TRUE, by |-> "bulk_check_conflicts",
                       conflicts |-> bulk_check_conflicts(rates, rate_definitions,
                                                          exclude_ids) ]
        /\ UNCHANGED <<rates, ratesUsed, rate_cache, inflight, probe, scored, shipments, system_config>>

NextBulk ==
    \/ CreateTariffRate(ResolvePayloads)
    \/ DeactivateRate
    \/ BulkCheckConflicts

\* Bulk validation against a store under administration.
SpecBulk == InitResolve /\ [][NextBulk]_vars

(***************************************************************************)
(* Creates and updates whose bodies carry an empty route field             *)
(***************************************************************************)

\* Bodies of PUT /tariff-rates/<id> that supply an empty origin or
\* destination, or move the dates or the weights.
StructUpdatePayloads ==
    { [ origin_country |-> "" ],
      [ destination_country |-> "" ],
      [ start_date |-> 3, end_date |-> 4 ],
      [ min_weight |-> 0, max_weight |-> 5 ] }

NextStruct ==
    \/ CreateTariffRate(ResolvePayloads \cup NoRoutePayloads \cup BadRangePayloads)
    \/ UpdateTariffRate(StructUpdatePayloads \cup BadRangePayloads)
    \/ DeactivateRate

SpecStruct == InitResolve /\ [][NextStruct]_vars

(***************************************************************************)
(* Archival against a shipment history                                     *)
(***************************************************************************)

\* Bodies of the rate requests: a wildcard rate of one of two routes, at 80%
\* or at 20%.
ArchivePayloads ==
    { Payload(<<o, d, "*", "*">>, <<1, 2>>, <<0, DefaultMaxWeight>>, t) :
        o \in { "CN" }, d \in { "US", "JP" }, t \in { 2, 8 } }

\* A processed_shipments row of the route CN -> US with its tariff_rate_used,
\* in tenths.
UsedRow(tariff_rate_used) ==
    [ host_origin_station      |-> "CN",
      host_destination_station |-> "US",
      tariff_rate_used         |-> tariff_rate_used ]

\* The shipment histories archival runs against: none, one shipment
\* calculated at 80%, one at 80% and one at 20%.
ArchiveShipmentTables ==
    { << >>, << UsedRow(8) >>, << UsedRow(8), UsedRow(2) >> }

\* The tariff_rate_used values of the processed shipments.
RatesUsed(rows) == { rows[i].tariff_rate_used : i \in DOMAIN rows }

InitArchive ==
    /\ rates = EmptyStore
    /\ shipments \in ArchiveShipmentTables
    /\ ratesUsed = RatesUsed(shipments)
    /\ rate_cache = EmptyCache
    /\ inflight = [p \in Workers |-> Idle]
    /\ probe = [ goods_category |-> "*", postal_service |-> "*" ]
    /\ scored = NotScored
    /\ system_config = EmptyCache
    /\ result = NoResult

NextArchive ==
    \/ CreateTariffRate(ArchivePayloads)
    \/ DeactivateRate
    \/ ArchiveRate

\* Rate administration and archival over a given shipment history.
SpecArchive == InitArchive /\ [][NextArchive]_vars

(***************************************************************************)
(* The coverage report: TariffCalculator.get_rate_coverage_report          *)
(***************************************************************************)

\* round(x) of x = num/den >= 0 to the nearest integer, a tie going to the
\* even one.
RoundHalfEven(num, den) ==
    LET whole == num \div den
        rest  == num - whole * den
    IN  IF 2 * rest < den THEN whole
        ELSE IF 2 * rest > den THEN whole + 1
        ELSE IF whole % 2 = 0 THEN whole
        ELSE whole + 1

\* The rows routes_query groups: both stations are not None.
RoutedShipments(rows) ==
    { i \in DOMAIN rows :
        /\ "host_origin_station" \in DOMAIN rows[i]
        /\ "host_destination_station" \in DOMAIN rows[i] }

\* The groups of routes_query: the distinct (origin, destination) pairs.
ShipmentRoutes(rows) ==
    { <<rows[i].host_origin_station, rows[i].host_destination_station>> :
        i \in RoutedShipments(rows) }

\* count(ProcessedShipment.id) of a group.
shipment_count(rows, route) ==
    Cardinality({ i \in RoutedShipments(rows) :
                    <<rows[i].host_origin_station, rows[i].host_destination_station>>
                        = route })

\* get_rate_coverage_report taking the routes of all rates, inactive ones
\* included, as covered.
get_rate_coverage_report_all_rates(store, rows) ==
    LET routes_query == ShipmentRoutes(rows)
        configured_rates == { r \in DOMAIN store : store[r].is_active }
        rate_routes == { <<store[r].origin_country, store[r].destination_country>> :
                           r \in DOMAIN store }
        covered_routes == Cardinality({ route \in routes_query : route \in rate_routes })
        uncovered_routes ==
            { [ origin |-> route[1], destination |-> route[2],
                shipment_count |-> shipment_count(rows, route) ] :
                route \in { r \in routes_query : r \notin rate_routes } }
    IN  [ total_routes           |-> Cardinality(routes_query),
          covered_routes         |-> covered_routes,
          uncovered_routes       |-> uncovered_routes,
          total_configured_rates |-> Cardinality(configured_rates) ]

\* TariffCalculator.get_rate_coverage_report: the dict it returns, the list
\* uncovered_routes as the set of its entries, coverage_percentage in tenths
\* of a percent.
get_rate_coverage_report(store, rows) ==
    LET routes_query == ShipmentRoutes(rows)
        configured_rates == { r \in DOMAIN store : store[r].is_active }
        rate_routes == { <<store[r].origin_country, store[r].destination_country>> :
                           r \in configured_rates }
        covered_routes == Cardinality({ route \in routes_query : route \in rate_routes })
        uncovered_routes ==
            { [ origin |-> route[1], destination |-> route[2],
                shipment_count |-> shipment_count(rows, route) ] :
                route \in { r \in routes_query : r \notin rate_routes } }
        category_keys == { <<store[r].goods_category, store[r].postal_service>> :
                             r \in configured_rates }
    IN  [ total_routes           |-> Cardinality(routes_query),
          covered_routes         |-> covered_routes,
          uncovered_routes       |-> uncovered_routes,
          total_configured_rates |-> Cardinality(configured_rates),
          rate_categories        |->
              [ key \in category_keys |->
                  Cardinality({ r \in configured_rates :
                      <<store[r].goods_category, store[r].postal_service>> = key }) ],
          recommendations        |->
              IF uncovered_routes # {} THEN { Cardinality(uncovered_routes) } ELSE {},
          coverage_percentage    |->
              IF Cardinality(routes_query) > 0
                  THEN RoundHalfEven(covered_routes * 1000, Cardinality(routes_query))
              ELSE 0 ]

\* A processed_shipments row with its stations.
RoutedRow(origin, destination) ==
    [ host_origin_station |-> origin, host_destination_station |-> destination ]

\* The shipment histories the report runs on: none; two shipments of one
\* route; three routes, one of them with two shipments, and a row without a
\* destination.
CoverageTables ==
    { << >>,
      << RoutedRow("CN", "US"), RoutedRow("CN", "US") >>,
      << RoutedRow("CN", "US"), RoutedRow("CN", "JP"), RoutedRow("CN", "US"),
         RoutedRow("HK", "US"), [ host_origin_station |-> "CN" ] >> }

\* Requests handed to the resolver by the readers of the report.
CoverageRequests ==
    { [ origin |-> "CN", destination |-> d, goods_category |-> "Documents",
        postal_service |-> "EMS", ship_date |-> 1 ] : d \in { "US", "JP" } }

\* tariff_calculator.find_applicable_rate(...) on the global calculator.
ResolveRequest ==
    \E req \in CoverageRequests :
        \E out \in find_applicable_rate(rate_cache, rates, req) :
            /\ rate_cache' = out.cache
            /\ result' = [ done |-> TRUE, by |-> "find_applicable_rate",
                           rate |-> out.rate ]
            /\ UNCHANGED <<rates, ratesUsed, inflight, probe, scored, shipments, system_config>>

\* get_rate_coverage_report deactivating the rates of routes without
\* shipments while it reports.
GetRateCoverageReport_pruning ==
    /\ result' = [ done |-> TRUE, by |-> "get_rate_coverage_report",
                   report |-> get_rate_coverage_report(rates, shipments) ]
    /\ rates' = [ r \in DOMAIN rates |->
                    IF <<rates[r].origin_country, rates[r].destination_country>>
                           \in ShipmentRoutes(shipments)
                        THEN rates[r]
                    ELSE [ rates[r] EXCEPT !.is_active = FALSE ] ]
    /\ UNCHANGED <<ratesUsed, rate_cache, inflight, probe, scored, shipments, system_config>>

\* tariff_calculator.get_rate_coverage_report().
GetRateCoverageReport ==
    /\ result' = [ done |-> TRUE, by |-> "get_rate_coverage_report",
                   report |-> get_rate_coverage_report(rates, shipments) ]
    /\ UNCHANGED <<rates, ratesUsed, rate_cache, inflight, probe, scored, shipments, system_config>>

InitCoverage ==
    /\ rates = EmptyStore
    /\ ratesUsed = {}
    /\ shipments \in CoverageTables
    /\ rate_cache = EmptyCache
    /\ inflight = [p \in Workers |-> Idle]
    /\ probe = [ goods_category |-> "*", postal_service |-> "*" ]
    /\ scored = NotScored
    /\ system_config = EmptyCache
    /\ result = NoResult

NextCoverage ==
    \/ CreateTariffRate(ArchivePayloads)
    \/ DeactivateRate
    \/ ResolveRequest
    \/ GetRateCoverageReport

\* The readers over a store under administration.
SpecCoverage == InitCoverage /\ [][NextCoverage]_vars

(***************************************************************************)
(* The validator of the calculator: TariffCalculator.validate_rate_conflicts *)
(***************************************************************************)

\* The required fields validate_rate_conflicts finds missing: a key the dict
\* lacks or an empty string.  A date is a day number, which is truthy.
MissingFields(rate_data) ==
    { field \in { "origin_country", "destination_country", "start_date", "end_date" } :
        \/ field \notin DOMAIN rate_data
        \/ /\ field \in { "origin_country", "destination_country" }
           /\ rate_data[field] = "" }

\* The query of validate_rate_conflicts and the exclusion of rate_data['id'].
OverlappingRates(store, rate_data) ==
    { i \in DOMAIN store :
        /\ store[i].origin_country = rate_data.origin_country
        /\ store[i].destination_country = rate_data.destination_country
        /\ store[i].goods_category = Get(rate_data, "goods_category", "*")
        /\ store[i].postal_service = Get(rate_data, "postal_service", "*")
        /\ store[i].is_active
        /\ \/ store[i].start_date <= rate_data.start_date
              /\ store[i].end_date >= rate_data.start_date
           \/ store[i].start_date <= rate_data.end_date
              /\ store[i].end_date >= rate_data.end_date
           \/ store[i].start_date >= rate_data.start_date
              /\ store[i].end_date <= rate_data.end_date
        /\ (Get(rate_data, "id", 0) # 0 => i # rate_data.id) }

\* TariffCalculator.validate_rate_conflicts: the errors it returns, each as
\* a record of its kind and what it names.
validate_rate_conflicts(store, rate_data) ==
    IF MissingFields(rate_data) # {}
        THEN { [ error |-> "Missing required field", field |-> f ] :
                 f \in MissingFields(rate_data) }
    ELSE ( IF rate_data.start_date >= rate_data.end_date
               THEN { [ error |-> "Start date must be before end date" ] }
           ELSE {} )
         \cup
         ( IF OverlappingRates(store, rate_data) # {}
               THEN { [ error |-> "Overlapping rates found",
                        rates |-> OverlappingRates(store, rate_data) ] }
           ELSE {} )

\* The dicts handed to the validator: the bodies of the rate requests, with
\* or without the id of the rate being edited.
ValidatorInputs ==
    Payloads \cup { CachePut(data, "id", id) : data \in ValidPayloads, id \in RateIds }

\* tariff_calculator.validate_rate_conflicts(rate_data): a read.
ValidateRateConflicts ==
    \E rate_data \in ValidatorInputs :
        /\ result' = [ done |-> TRUE, by |-> "validate_rate_conflicts",
                       errors |-> validate_rate_conflicts(rates, rate_data) ]
        /\ UNCHANGED <<rates, ratesUsed, rate_cache, inflight, probe, scored, shipments, system_config>>

\* TariffRate.check_combined_conflicts(...): a read.
CheckCombinedConflicts ==
    \E data \in ValidPayloads, exclude_id \in { 0 } \cup RateIds :
        /\ result' = [ done |-> TRUE, by |-> "check_combined_conflicts",
                       conflicts |->
                           check_combined_conflicts(rates, data.origin_country,
                               data.destination_country, data.goods_category,
                               data.postal_service, data.start_date, data.end_date,
                               data.min_weight, data.max_weight, exclude_id) ]
        /\ UNCHANGED <<rates, ratesUsed, rate_cache, inflight, probe, scored, shipments, system_config>>

NextValidate ==
    \/ CreateTariffRate(ValidPayloads)
    \/ DeactivateRate
    \/ ValidateRateConflicts
    \/ CheckCombinedConflicts

\* The two validators over a store under administration.
SpecValidate == InitResolve /\ [][NextValidate]_vars

(***************************************************************************)
(* The properties                                                          *)
(***************************************************************************)

\* The conflict relation of the design: same scope, periods that share a
\* day, weight intervals that share a weight.
SameScope(a, b) ==
    /\ a.origin_country = b.origin_country
    /\ a.destination_country = b.destination_country
    /\ a.goods_category = b.goods_category
    /\ a.postal_service = b.postal_service

DatesOverlap(a, b) == a.start_date <= b.end_date /\ a.end_date >= b.start_date

WeightsOverlap(a, b) == a.min_weight <= b.max_weight /\ a.max_weight >= b.min_weight

\* The stored rates a candidate conflicts with, `excluding` left out.
ConflictSet(store, cand, excluding) ==
    { i \in DOMAIN store :
        /\ i # excluding
        /\ store[i].is_active
        /\ SameScope(cand, store[i])
        /\ DatesOverlap(cand, store[i])
        /\ WeightsOverlap(cand, store[i]) }

\* C1: in every state reached from the empty store by rate-admin requests
\* served one at a time, no two distinct active rates of the same (origin,
\* destination, goods_category, postal_service) overlap in dates and in
\* weights.
C1_NoActiveOverlap ==
    \A i, j \in DOMAIN rates :
        (i # j /\ rates[i].is_active /\ rates[j].is_active
            /\ SameScope(rates[i], rates[j]))
        => ~(DatesOverlap(rates[i], rates[j]) /\ WeightsOverlap(rates[i], rates[j]))

\* Two active rates of one scope whose periods share a day, kept apart by
\* their weights only.
C1_Witness ==
    \E i, j \in DOMAIN rates :
        /\ i # j
        /\ rates[i].is_active /\ rates[j].is_active
        /\ SameScope(rates[i], rates[j])
        /\ DatesOverlap(rates[i], rates[j])
        /\ ~WeightsOverlap(rates[i], rates[j])

\* Candidates handed to the validators: scopes the store holds and scopes
\* it does not, periods and weights that touch, contain or miss the stored.
ValidateCandidates ==
    { Rate(s[1], s[2], s[3], s[4], d[1], d[2], w[1], w[2], 8, TRUE) :
        s \in Scopes \cup { <<"HK", "US", "*", "*">>, <<"CN", "US", "*", "EMS">> },
        d \in { <<1, 1>>, <<2, 3>>, <<3, 4>>, <<1, 4>> },
        w \in { <<0, 5>>, <<5, 6>>, <<6, 10>>, <<11, 20>> } }

\* C2: check_weight_range_overlap and check_combined_conflicts return
\* exactly the active stored rates, other than the excluded one, of the
\* candidate's scope whose period and weights overlap the candidate's; a
\* stored rate validated with its own id excluded is not in the result.
C2_ValidateExact ==
    /\ \A cand \in ValidateCandidates, exclude_id \in 0..MaxRates :
        /\ WeightOverlap(rates, cand, exclude_id) = ConflictSet(rates, cand, exclude_id)
        /\ check_combined_conflicts(rates, cand.origin_country,
               cand.destination_country, cand.goods_category, cand.postal_service,
               cand.start_date, cand.end_date, cand.min_weight, cand.max_weight,
               exclude_id) = ConflictSet(rates, cand, exclude_id)
    /\ \A i \in DOMAIN rates : i \notin WeightOverlap(rates, rates[i], i)

\* A candidate that overlaps two active rates: validated for an update of
\* the one, the result is the other alone.
C2_Witness ==
    \E i, j \in DOMAIN rates, cand \in ValidateCandidates :
        /\ i # j
        /\ WeightOverlap(rates, cand, 0) = {i, j}
        /\ WeightOverlap(rates, cand, i) = {j}
        /\ i \in WeightOverlap(rates, rates[i], 0)

\* C3: with the reads and the write of a create, update or reactivate
\* interleaved with those of another request, the store never holds two
\* active rates of one scope that overlap in dates and weights.
C3_AtomicValidateInsert ==
    \A i \in DOMAIN rates :
        rates[i].is_active => ConflictSet(rates, rates[i], i) = {}

\* C4: POST /tariff-rates does not refuse a valid body whose conflict set
\* is empty, as when an active rate of its scope overlaps it in dates and
\* not in weights.
C4_CreatesConflictFree ==
    \A data \in ValidPayloads :
        ConflictSet(rates, CreateCandidate(data), 0) = {}
        => \A existing \in FirstExisting(rates, data) :
               create_tariff_rate(rates, data, existing).status \in { 200, 201 }

\* What a resolve call may return in this state: by find_applicable_rate
\* on the calculator's cache, or by find_route_rate.
Resolved(cache, store, req) ==
    { out.rate : out \in find_applicable_rate(cache, store, req) }
    \cup find_route_rate(store, req)

\* C5: a rate resolve returns is in the store and active, of the request's
\* origin and destination, of its category or the wildcard, of its service
\* or the wildcard, and valid on the ship date.
C5_ResolveSound ==
    \A req \in Requests : \A r \in Resolved(rate_cache, rates, req) :
        r # 0 =>
            /\ r \in DOMAIN rates
            /\ rates[r].is_active
            /\ rates[r].origin_country = req.origin
            /\ rates[r].destination_country = req.destination
            /\ rates[r].goods_category \in { req.goods_category, "*" }
            /\ rates[r].postal_service \in { req.postal_service, "*" }
            /\ rates[r].start_date <= req.ship_date
            /\ req.ship_date <= rates[r].end_date

\* The rates that pass the filters of the design for a request.
Survivors(store, req) ==
    { i \in DOMAIN store :
        /\ store[i].is_active
        /\ store[i].origin_country = req.origin
        /\ store[i].destination_country = req.destination
        /\ store[i].goods_category \in { req.goods_category, "*" }
        /\ store[i].postal_service \in { req.postal_service, "*" }
        /\ store[i].start_date <= req.ship_date
        /\ req.ship_date <= store[i].end_date
        /\ ("weight" \in DOMAIN req =>
                store[i].min_weight <= req.weight /\ req.weight <= store[i].max_weight) }

\* C6: with a weight supplied, a rate resolve returns has the weight within
\* its bounds, and resolve returns none when no rate passing the filters
\* has.
C6_WeightWithinBounds ==
    \A req \in Requests : \A r \in Resolved(rate_cache, rates, req) :
        "weight" \in DOMAIN req =>
            /\ r # 0 =>
                /\ r \in DOMAIN rates
                /\ rates[r].min_weight <= req.weight
                /\ req.weight <= rates[r].max_weight
            /\ Survivors(rates, req) = {} => r = 0

\* C7: resolve returns none exactly when no rate passes the filters, and
\* otherwise one that passes them and whose specificity score no other
\* that passes exceeds.
C7_MaxSpecificity ==
    \A req \in Requests : \A r \in Resolved(rate_cache, rates, req) :
        /\ r = 0 <=> Survivors(rates, req) = {}
        /\ r # 0 =>
            /\ r \in Survivors(rates, req)
            /\ \A b \in Survivors(rates, req) :
                   specificity_score(rates[b]) <= specificity_score(rates[r])

\* C8: what resolve returns for a request is fixed by the store and the
\* request: one result, the one a fresh calculator returns on the same
\* store, whatever was resolved or changed before and in whatever order the
\* store lists the rates.
C8_Deterministic ==
    \A req \in Requests :
        /\ Cardinality(Resolved(rate_cache, rates, req)) = 1
        /\ Resolved(rate_cache, rates, req) = Resolved(EmptyCache, rates, req)

\* The rates each resolver takes to match a request, with the score it
\* ranks them by.
RouteMatches(store, req) ==
    { i \in DOMAIN store : i \in find_route_rate([k \in {i} |-> store[k]], req) }

\* C9: no request with a ship date and a weight has two distinct active
\* rates that both match it with equal specificity score, by the matching
\* and the score of either resolver.
C9_NoAmbiguity ==
    \A req \in { q \in Requests : "weight" \in DOMAIN q } :
        /\ \A i, j \in ApplicableRates(rates, req) :
               specificity_score(rates[i]) = specificity_score(rates[j]) => i = j
        /\ \A i, j \in RouteMatches(rates, req) :
               route_specificity_score(rates[i]) = route_specificity_score(rates[j])
               => i = j

\* 1 if the condition holds, else 0.
Bit(cond) == IF cond THEN 1 ELSE 0

\* C10 as stated: the score is 2 for a category, plus 1 for a service, plus
\* 1 for weight bounds other than the full default range.
C10_ScoreAsStated ==
    scored.done =>
        scored.score =
            2 * Bit(probe.goods_category # "*")
            + Bit(probe.postal_service # "*")
            + Bit(\/ ("min_weight" \in DOMAIN probe /\ probe.min_weight # 0)
                  \/ ("max_weight" \in DOMAIN probe
                        /\ probe.max_weight # DefaultMaxWeight))

\* C10: TariffRate.specificity_score is 4 for a category, plus 2 for a
\* service, plus 1 when a weight bound is set; it is 0 for the wildcard
\* rate without weight bounds, and a rate with a category scores above
\* every rate without one.  The score of find_route_rate is 1 for a
\* service, else 0.
C10_Score ==
    scored.done =>
        /\ scored.score =
               4 * Bit(probe.goods_category # "*")
               + 2 * Bit(probe.postal_service # "*")
               + Bit(DOMAIN probe \cap { "min_weight", "max_weight" } # {})
        /\ (probe = [ goods_category |-> "*", postal_service |-> "*" ]
                => scored.score = 0)
        /\ (probe.goods_category # "*" => scored.score >= 4)
        /\ (probe.goods_category = "*" => scored.score <= 3)
        /\ scored.route_score = Bit(probe.postal_service # "*")

\* A service rate with weight bounds scored 3, below the 4 of a category.
C10_Witness ==
    /\ scored.done
    /\ probe.goods_category = "*"
    /\ probe.postal_service = "EMS"
    /\ "min_weight" \in DOMAIN probe
    /\ scored.score = 3

\* C11: for every active rate and every declared value >= 0, 0 included,
\* the amount an evaluator returns is at least the rate's minimum_tariff,
\* and at most its maximum_tariff when a maximum is set.
C11_EvaluatorBounds ==
    (result.done /\ probe.is_active) =>
        /\ result.amount >= MinimumTariff(probe)
        /\ ("maximum_tariff" \in DOMAIN probe
                => result.amount <= probe.maximum_tariff)

\* The amount of the design: the product, raised to the minimum, lowered to
\* the maximum whenever one is set, rounded to hundredths.
EvaluateAsDesigned(rate, declared_value) ==
    LET raw  == << declared_value * rate.tariff_rate, 10 >>
        low  == IF raw[1] < MinimumTariff(rate) * raw[2]
                    THEN << MinimumTariff(rate), 1 >> ELSE raw
        high == IF "maximum_tariff" \in DOMAIN rate
                     /\ low[1] > rate.maximum_tariff * low[2]
                    THEN << rate.maximum_tariff, 1 >> ELSE low
    IN  Round2(high[1], high[2])

\* C12: for an active rate and a declared value above 0, what
\* TariffRate.calculate_tariff and calculate_tariff_for_shipment of
\* src/models/database.py compute is declared_value times the rate, raised
\* to minimum_tariff, then lowered to maximum_tariff whenever one is set,
\* 0 included, rounded to 2 decimals; with the maximum below the minimum
\* the result is the maximum.
C12_EvaluateClamped ==
    (/\ result.done
     /\ result.by \in { "calculate_tariff", "route_tariff_amount" }
     /\ probe.is_active
     /\ result.declared_value > 0) =>
        /\ result.amount = EvaluateAsDesigned(probe, result.declared_value)
        /\ (("maximum_tariff" \in DOMAIN probe
                /\ probe.maximum_tariff < MinimumTariff(probe))
                => result.amount = probe.maximum_tariff)

\* The amount the fallback is to give: the declared value times the ratio of
\* the tariff amounts to the declared values of the past shipments of the
\* route when their declared values sum to more than 0, times the default
\* fraction otherwise.
FallbackAsDesigned(rows, origin, destination, declared_value) ==
    LET history == RouteHistory(rows, origin, destination)
        total_declared_value == SumOf(rows, history, "declared_value")
        total_tariff_amount == SumOf(rows, history, "tariff_amount")
    IN  IF total_declared_value > 0
            THEN Round2(declared_value * total_tariff_amount, total_declared_value)
        ELSE Round2(declared_value * default_rate, 10)

\* C13: for a shipment with a declared value above 0 for which resolve
\* returns none, either pipeline returns the fallback amount: the declared
\* value times the historical ratio of the route when the route has history
\* with a positive declared value (also when that ratio is 0), times the
\* default fraction otherwise; never 0 or an error result in its place.
C13_FallbackCorrect ==
    \A i \in DOMAIN shipments :
        LET shipment == shipments[i]
            designed == FallbackAsDesigned(shipments, shipment.host_origin_station,
                            shipment.host_destination_station, shipment.declared_value)
        IN  shipment.declared_value > 0 =>
                /\ \A out \in TariffCalculator_calculate_tariff_for_shipment(rate_cache,
                                  rates, shipments, shipment) :
                        out.fallback => out.tariff_amount = designed
                /\ \A res \in TariffRate_calculate_tariff_for_shipment(rates,
                                  RecalculateRequest(shipment), shipment.declared_value) :
                        res.rate_used = 0 =>
                            /\ res.calculation_method # "error"
                            /\ res.tariff_amount = designed

\* The route of the shipment has no usable history: no past shipment with a
\* tariff amount, or declared values that sum to 0.
NoUsableHistory(rows, shipment) ==
    SumOf(rows, RouteHistory(rows, shipment.host_origin_station,
                             shipment.host_destination_station),
          "declared_value") = 0

\* C14: once the system parameter 'fallback_tariff_rate' is set to a value
\* v, every fallback amount calculated for a shipment whose route has no
\* usable history is the declared value times v.
C14_ConfiguredDefault ==
    "fallback_tariff_rate" \in DOMAIN system_config =>
        \A i \in DOMAIN shipments :
            (shipments[i].declared_value > 0 /\ NoUsableHistory(shipments, shipments[i])) =>
                \A out \in TariffCalculator_calculate_tariff_for_shipment(rate_cache,
                                rates, shipments, shipments[i]) :
                    out.fallback =>
                        out.tariff_amount =
                            Round2(shipments[i].declared_value
                                       * system_config["fallback_tariff_rate"], 10)

C18_BatchOrderIndependent ==
    \A o1, o2 \in Perms(WithoutTariff(shipments)) :
        \A out1 \in process_batch_tariffs(rate_cache, rates, shipments, o1) :
            \A out2 \in process_batch_tariffs(rate_cache, rates, shipments, o2) :
                out1.rows = out2.rows

\* C16: a create, update or reactivate request that is rejected (status 400
\* or 404: an invalid date range, a negative or inverted weight range, a
\* missing origin or destination, a non-empty conflict list, an unknown id)
\* leaves the Rate Store exactly as it was.
C16_RejectedLeavesStore ==
    /\ \A data \in Payloads :
          \A existing \in FirstExisting(rates, data) :
              LET reply == create_tariff_rate(rates, data, existing)
              IN  reply.status \in { 400, 404 } => reply.rates = rates
    /\ \A rate_id \in RateIds, data \in UpdatePayloads :
          LET reply == update_tariff_rate(rates, rate_id, data)
          IN  reply.status \in { 400, 404 } => reply.rates = rates
    /\ \A rate_id \in RateIds :
          LET reply == reactivate_rate(rates, rate_id)
          IN  reply.status \in { 400, 404 } => reply.rates = rates

\* A store on which each kind of rejection happens: a create rejected for
\* its route, for its dates, for its weights and for a conflict list; an
\* update and a reactivation rejected for a conflict list.
C16_Witness ==
    /\ \E data \in NoRoutePayloads :
          create_tariff_rate(rates, data, 0).status = 400
    /\ \E data \in BadRangePayloads :
          /\ data.start_date >= data.end_date
          /\ create_tariff_rate(rates, data, 0).status = 400
    /\ \E data \in BadRangePayloads :
          /\ data.start_date < data.end_date
          /\ create_tariff_rate(rates, data, 0).status = 400
    /\ \E data \in ValidPayloads :
          \E existing \in FirstExisting(rates, data) :
              LET reply == create_tariff_rate(rates, data, existing)
              IN  reply.status = 400 /\ reply.overlapping # {}
    /\ \E rate_id \in RateIds, data \in UpdatePayloads :
          LET reply == update_tariff_rate(rates, rate_id, data)
          IN  reply.status = 400 /\ reply.overlapping # {}
    /\ \E rate_id \in RateIds :
          LET reply == reactivate_rate(rates, rate_id)
          IN  reply.status = 400 /\ reply.overlapping # {}

\* Two definitions of one batch overlap: same scope, overlapping dates and
\* overlapping weights, by the comparisons bulk_check_conflicts applies to
\* stored rates.
DefinitionsOverlap(a, b) ==
    /\ a.origin = b.origin
    /\ a.destination = b.destination
    /\ a.goods_category = b.goods_category
    /\ a.postal_service = b.postal_service
    /\ a.start_date <= b.end_date
    /\ a.end_date >= b.start_date
    /\ a.min_weight <= b.max_weight
    /\ a.max_weight >= b.min_weight

\* C17: bulk_check_conflicts reports a conflict for a candidate of the batch
\* exactly when it overlaps an active stored rate or another candidate of
\* the same batch.
C17_BulkChecksBatch ==
    \A rate_definitions \in Batches :
        LET conflicts == bulk_check_conflicts(rates, rate_definitions, {})
        IN  \A i \in DOMAIN rate_definitions :
                i \in DOMAIN conflicts <=>
                    \/ \E r \in DOMAIN rates :
                          ConflictsWithDefinition(rates[r], rate_definitions[i])
                    \/ \E j \in DOMAIN rate_definitions \ {i} :
                          DefinitionsOverlap(rate_definitions[i], rate_definitions[j])

\* C19: create and update reject a date range exactly when its start is
\* after its end: among bodies that name a route and whose weights are in
\* order, the ones rejected without a conflict list are the ones with
\* start_date > end_date, so a range of one day is accepted or refused only
\* for a conflict.
C19_RejectsOnlyReversedDates ==
    /\ \A data \in Payloads :
          \A existing \in FirstExisting(rates, data) :
              LET cand == CreateCandidate(data)
                  reply == create_tariff_rate(rates, data, existing)
              IN  ( /\ cand.origin_country # "" /\ cand.destination_country # ""
                    /\ 0 <= cand.min_weight /\ cand.min_weight <= cand.max_weight ) =>
                      ( (reply.status = 400 /\ reply.overlapping = {})
                            <=> cand.start_date > cand.end_date )
    /\ \A rate_id \in DOMAIN rates, data \in UpdatePayloads :
          LET cand == UpdateCandidate(rates[rate_id], data)
              reply == update_tariff_rate(rates, rate_id, data)
          IN  ( 0 <= cand.min_weight /\ cand.min_weight <= cand.max_weight ) =>
                  ( (reply.status = 400 /\ reply.overlapping = {})
                        <=> cand.start_date > cand.end_date )

\* C20: after any sequence of creates and updates every rate of the store
\* has a non-empty origin and destination, start_date <= end_date and
\* 0 <= min_weight <= max_weight; and an update that supplies an empty
\* origin or destination is rejected.
C20_StructuralInvariant ==
    /\ \A r \in DOMAIN rates :
          /\ rates[r].origin_country # ""
          /\ rates[r].destination_country # ""
          /\ rates[r].start_date <= rates[r].end_date
          /\ 0 <= rates[r].min_weight
          /\ rates[r].min_weight <= rates[r].max_weight
    /\ \A rate_id \in DOMAIN rates, data \in StructUpdatePayloads :
          ( Get(data, "origin_country", "x") = ""
                \/ Get(data, "destination_country", "x") = "" ) =>
              update_tariff_rate(rates, rate_id, data).status = 400

\* A shipment of the history references the rate: it is of the rate's route
\* and was calculated at the rate's value.
Referenced(rows, rate) ==
    \E i \in DOMAIN rows :
        /\ rows[i].host_origin_station = rate.origin_country
        /\ rows[i].host_destination_station = rate.destination_country
        /\ rows[i].tariff_rate_used = rate.tariff_rate

\* C21: archive removes a rate only when no processed shipment was
\* calculated with it: the archive of a referenced rate is rejected and
\* leaves the store unchanged, and the archive of a rate no shipment
\* references succeeds and removes it.
C21_ArchiveOnlyUnreferenced ==
    \A rate_id \in DOMAIN rates :
        LET reply == archive_rate(rates, ratesUsed, rate_id)
        IN  IF Referenced(shipments, rates[rate_id])
                THEN reply.status = 400 /\ reply.rates = rates
            ELSE reply.status = 200 /\ rate_id \notin DOMAIN reply.rates

\* What a soft delete of the rate is to leave: the same rows, the rate
\* inactive, every other column and every other rate as before.
SoftDeleted(store, rate_id) ==
    [ i \in DOMAIN store |->
        IF i = rate_id
            THEN [ origin_country      |-> store[i].origin_country,
                   destination_country |-> store[i].destination_country,
                   goods_category      |-> store[i].goods_category,
                   postal_service      |-> store[i].postal_service,
                   start_date          |-> store[i].start_date,
                   end_date            |-> store[i].end_date,
                   min_weight          |-> store[i].min_weight,
                   max_weight          |-> store[i].max_weight,
                   tariff_rate         |-> store[i].tariff_rate,
                   is_active           |-> FALSE ]
        ELSE store[i] ]

\* C22: DELETE /tariff-rates/<id> and deactivate never remove a record: the
\* rate stays in the store, inactive, with its scope, dates, weight bounds
\* and rate value unchanged, and every other rate is unchanged.
C22_SoftDeleteKeepsRecord ==
    \A rate_id \in DOMAIN rates :
        /\ delete_tariff_rate(rates, rate_id).status = 200
        /\ delete_tariff_rate(rates, rate_id).rates = SoftDeleted(rates, rate_id)
        /\ deactivate_rate(rates, rate_id).status = 200
        /\ deactivate_rate(rates, rate_id).rates = SoftDeleted(rates, rate_id)

\* A store of two rates, one of them active and one deactivated.
C22_Witness ==
    \E a, b \in DOMAIN rates :
        /\ a # b
        /\ rates[a].is_active
        /\ ~rates[b].is_active
        /\ delete_tariff_rate(rates, a).rates # rates
        /\ deactivate_rate(rates, b).rates = rates

\* C23: evaluating an active rate for a positive declared value and a weight
\* outside the rate's [min_weight, max_weight] never returns a tariff amount
\* of 0 in place of an error.
C23_NoSilentZero ==
    ( /\ result.done
      /\ result.by = "calculate_tariff_by_weight"
      /\ probe.is_active
      /\ result.declared_value > 0
      /\ "weight" \in DOMAIN result.weight
      /\ \/ result.weight.weight < probe.min_weight
         \/ result.weight.weight > probe.max_weight )
        => result.amount # 0

\* C24: the coverage report classifies every distinct (origin, destination)
\* pair of the shipment history exactly once: the pair is counted as covered
\* exactly when an active rate has that origin and destination, and is
\* otherwise listed in uncovered_routes with its number of shipments; so
\* covered_routes + |uncovered_routes| = total_routes.
C24_CoverageClassifies ==
    LET report == get_rate_coverage_report(rates, shipments)
        pairs == ShipmentRoutes(shipments)
        covered == { pair \in pairs :
                       \E r \in DOMAIN rates :
                           /\ rates[r].is_active
                           /\ rates[r].origin_country = pair[1]
                           /\ rates[r].destination_country = pair[2] }
    IN  /\ report.total_routes = Cardinality(pairs)
        /\ report.covered_routes = Cardinality(covered)
        /\ \A pair \in pairs \ covered :
              Cardinality({ u \in report.uncovered_routes :
                              u.origin = pair[1] /\ u.destination = pair[2] }) = 1
        /\ \A u \in report.uncovered_routes :
              /\ <<u.origin, u.destination>> \in pairs \ covered
              /\ u.shipment_count =
                     Cardinality({ i \in RoutedShipments(shipments) :
                         /\ shipments[i].host_origin_station = u.origin
                         /\ shipments[i].host_destination_station = u.destination })
        /\ report.covered_routes + Cardinality(report.uncovered_routes)
               = report.total_routes

\* A report with a covered pair, an uncovered pair of one shipment and a
\* history that holds a pair twice.
C24_Witness ==
    /\ result.done
    /\ result.by = "get_rate_coverage_report"
    /\ result.report = get_rate_coverage_report(rates, shipments)
    /\ result.report.covered_routes >= 1
    /\ result.report.uncovered_routes # {}
    /\ result.report.total_routes < Cardinality(RoutedShipments(shipments))

\* C25: resolve and the coverage report are pure reads: a step of either
\* leaves every rate of the Rate Store and every shipment of the history as
\* it was.
C25_ReadsChangeNothing ==
    [][ (ResolveRequest \/ GetRateCoverageReport) =>
            (rates' = rates /\ shipments' = shipments) ]_vars

\* Both reads have run against a store that holds an active rate and a
\* history that holds shipments: the resolver has cached a rate and the
\* report is the last result.
C25_Witness ==
    /\ \E r \in DOMAIN rates : rates[r].is_active
    /\ shipments # << >>
    /\ \E req \in DOMAIN rate_cache : rate_cache[req] # 0
    /\ result.done
    /\ result.by = "get_rate_coverage_report"

\* C26: POST /tariff-rates with exactly the origin, destination, category,
\* service, dates and weight bounds of an existing active rate updates that
\* rate from the payload and adds no record; it is not rejected as a
\* conflict with the rate it targets.
C26_CreateOrUpdate ==
    \A data \in ValidPayloads :
        \A existing \in ExistingRates(rates, CreateCandidate(data)) :
            rates[existing].is_active =>
                LET reply == create_tariff_rate(rates, data, existing)
                IN  /\ reply.status = 200
                    /\ DOMAIN reply.rates = DOMAIN rates
                    /\ reply.rates[existing].tariff_rate = data.tariff_rate

\* A shipment as a batch recalculation is to leave it when it updates it:
\* every tariff field written.
FullyRecalculated(before, after) ==
    /\ "tariff_amount" \in DOMAIN after
    /\ "tariff_rate_used" \in DOMAIN after
    /\ after.tariff_calculation_method \in { "configured", "fallback" }
    /\ after.goods_category = before.goods_category
    /\ after.postal_service = before.postal_service
    /\ after.shipment_date = before.shipment_date

C28_ValidatorsAgree ==
    \A data \in ValidPayloads, exclude_id \in { 0 } \cup RateIds :
        data.start_date < data.end_date =>
            ( (\E err \in validate_rate_conflicts(rates, CachePut(data, "id", exclude_id)) :
                   err.error = "Overlapping rates found")
              <=>
              check_combined_conflicts(rates, data.origin_country,
                  data.destination_country, data.goods_category, data.postal_service,
                  data.start_date, data.end_date, data.min_weight, data.max_weight,
                  exclude_id) # {} )

\* The ids a bulk request names.
Requested(rate_ids) == { rate_ids[k] : k \in DOMAIN rate_ids }

\* C29: bulk-deactivate is all-or-nothing: when an id of rate_ids is not in
\* the store the store is unchanged; otherwise the request succeeds, every
\* requested rate is inactive afterwards, no other rate and no other column
\* changes, and updated_count is the number of requested rates that were
\* active.
C29_BulkDeactivateAllOrNothing ==
    \A rate_ids \in BulkRateIds \ { << >> } :
        LET reply == bulk_deactivate_rates(rates, rate_ids)
        IN  IF \E id \in Requested(rate_ids) : id \notin DOMAIN rates
                THEN reply.status = 404 /\ reply.rates = rates
            ELSE /\ reply.status = 200
                 /\ reply.rates =
                        [ i \in DOMAIN rates |->
                            IF i \in Requested(rate_ids)
                                THEN [ rates[i] EXCEPT !.is_active = FALSE ]
                            ELSE rates[i] ]
                 /\ bulk_updated_count(rates, rate_ids) =
                        Cardinality({ i \in Requested(rate_ids) : rates[i].is_active })

\* C30: deactivating an active rate and reactivating it, with no other
\* change of the store in between, always succeeds and gives back the store
\* as it was: the rate active, its scope, dates, weight bounds and rate value
\* unchanged.
C30_DeactivateReactivate ==
    \A rate_id \in DOMAIN rates :
        rates[rate_id].is_active =>
            LET deactivated == deactivate_rate(rates, rate_id)
                reply == reactivate_rate(deactivated.rates, rate_id)
            IN  /\ deactivated.status = 200
                /\ reply.status = 200
                /\ reply.rates = rates

====
